---- MODULE Spec2Model ----
(***************************************************************************)
(* Model of the snapo launcher stub, snapo-app-mac/SnapOCLI/main.c.        *)
(*                                                                         *)
(* The launcher canonicalizes its own argv[0], strips the last two path    *)
(* components, appends a compiled-in helper sub-path, builds a new         *)
(* argument vector and replaces its process image with the helper.         *)
(*                                                                         *)
(* C strings are sequences of one-character strings, so that strrchr,      *)
(* snprintf and the buffer sizes are computed character by character.      *)
(* A C array index i is the TLA+ index i + 1.                              *)
(***************************************************************************)
EXTENDS Integers, Sequences, FiniteSets, TLC

(***************************************************************************)
(* Program and platform constants.                                         *)
(***************************************************************************)

\* <limits.h>: size of the two path buffers (Linux value; Darwin has 1024).
PATH_MAX == 4096

\* <limits.h>: longest file name a directory entry can have.
NAME_MAX == 255

\* realpath gives up with ELOOP after following this many symbolic links.
MAXSYMLINKS == 40

\* Size of the buffer realpath first asks getcwd to fill, for a relative
\* argument.
ScratchSize == 1024

\* execve reads this many bytes of a file to find out what it is, and
\* takes a script's interpreter from them.
BINPRM_BUF_SIZE == 256

\* execve follows at most this many interpreters of interpreters.
MAX_INTERP_DEPTH == 5

\* Size of the header a program's ELF interpreter starts with.
EHDR_SIZE == 64

\* main.c:7-8
kHelperRelativeExecutable ==
  << "H", "e", "l", "p", "e", "r", "s", "/", "S", "n", "a", "p", "-", "O", " ",
     "N", "e", "t", "w", "o", "r", "k", " ", "I", "n", "s", "p", "e", "c", "t",
     "o", "r", ".", "a", "p", "p", "/", "C", "o", "n", "t", "e", "n", "t", "s",
     "/", "M", "a", "c", "O", "S", "/", "S", "n", "a", "p", "-", "O", " ", "N",
     "e", "t", "w", "o", "r", "k", " ", "I", "n", "s", "p", "e", "c", "t", "o",
     "r" >>

\* The three diagnostics main can write to standard error.
\* A line is its fixed text and, for perror, the errno whose description
\* follows the colon.
MsgResolve ==
  [text |-> "snapo: failed to resolve helper executable path", errno |-> "-"]

MsgAlloc == [text |-> "snapo: failed to allocate argument buffer", errno |-> "-"]

\* perror(prefix): the prefix, a colon and the text of errno.
MsgLaunch(errno) == [text |-> "snapo: failed to launch helper", errno |-> errno]

(***************************************************************************)
(* Bounds of the model.                                                    *)
(***************************************************************************)

\* Largest number of user-supplied arguments (argc - 1).
MaxArgs == 2

(***************************************************************************)
(* Strings and paths.                                                      *)
(***************************************************************************)

Slash == "/"

\* Positions of '/' in the C string s.
SlashPos(s) == {i \in 1..Len(s) : s[i] = Slash}

\* The k-th smallest element of a finite set of integers.
Nth(P, k) == CHOOSE x \in P : Cardinality({y \in P : y < x}) = k - 1

\* The '/'-separated pieces of s, empty pieces included ("/a//b" gives
\* "", "a", "", "b").
Components(s) ==
  LET P == SlashPos(s) \cup {0, Len(s) + 1}
      n == Cardinality(P)
  IN  [k \in 1..(n - 1) |-> SubSeq(s, Nth(P, k) + 1, Nth(P, k + 1) - 1)]

RECURSIVE JoinAbs(_)
\* The absolute path string of a list of names: "/" for the root.
JoinAbs(names) ==
  IF names = <<>> THEN <<>>
  ELSE JoinAbs(SubSeq(names, 1, Len(names) - 1)) \o <<Slash>> \o names[Len(names)]

CPath(names) == IF names = <<>> THEN <<Slash>> ELSE JoinAbs(names)

\* names without its last k entries (the root has no parent but itself).
Up(names, k) == SubSeq(names, 1, IF Len(names) > k THEN Len(names) - k ELSE 0)

(***************************************************************************)
(* The filesystem: a function from the canonical location of an entry (a   *)
(* list of names below "/") to what is there.                              *)
(***************************************************************************)

Dir ==
  [type |-> "dir", target |-> <<>>, exec |-> TRUE, format |-> "none",
   interp |-> <<>>, size |-> 0]

Link(t) ==
  [type |-> "link", target |-> t, exec |-> TRUE, format |-> "none",
   interp |-> <<>>, size |-> 0]

\* What a regular file holds, as execve sees it: a program that needs no
\* interpreter, a program that names its ELF interpreter (PT_INTERP), a
\* script whose first line is "#!" and then the text l, or n bytes that
\* are none of these. interp is the PT_INTERP of a program and the text l
\* of a script.
Static == [format |-> "static", interp |-> <<>>, size |-> EHDR_SIZE]

Dynamic(p) == [format |-> "dynamic", interp |-> p, size |-> EHDR_SIZE]

Script(l) == [format |-> "script", interp |-> l, size |-> Len(l) + 3]

Data(n) == [format |-> "data", interp |-> <<>>, size |-> n]

\* A regular file: x is its execute permission, c what it holds.
File(x, c) ==
  [type |-> "file", target |-> <<>>, exec |-> x, format |-> c.format,
   interp |-> c.interp, size |-> c.size]

Dot == <<".">>

DotDot == <<".", ".">>

\* The positions after which a name of s starts that is neither empty nor
\* ".": 0 or a '/', followed by such a name.
NameStarts(s) ==
  {i \in {0} \cup SlashPos(s) :
     /\ i + 1 <= Len(s)
     /\ s[i + 1] # Slash
     /\ ~(s[i + 1] = "." /\ (i + 2 > Len(s) \/ s[i + 2] = Slash))}

\* The positions before which such a name ends: a '/' or the end of s.
NameEnds(s) ==
  {j \in SlashPos(s) \cup {Len(s) + 1} :
     /\ j - 1 >= 1
     /\ s[j - 1] # Slash
     /\ ~(s[j - 1] = "." /\ (j - 2 < 1 \/ s[j - 2] = Slash))}

\* The names of s in order, without the empty ones and the "." ones, which
\* a lookup passes over.
PathNames(s) ==
  LET I == NameStarts(s)
      E == NameEnds(s)
  IN  [k \in 1..Cardinality(I) |-> SubSeq(s, Nth(I, k) + 1, Nth(E, k) - 1)]

\* s ends in "/" or "/.": what comes before has to be a directory.
Trailing(s) ==
  /\ Len(s) > 0
  /\ \/ s[Len(s)] = Slash
     \/ s[Len(s)] = "." /\ (Len(s) = 1 \/ s[Len(s) - 1] = Slash)

\* What a lookup of s goes through: its names, and a final "." when s ends
\* in "/" or "/.".
PathItems(s) == PathNames(s) \o (IF Trailing(s) THEN <<Dot>> ELSE <<>>)

\* The items of a symbolic link's target followed by the rest of the path:
\* a "/" or "/." at the end of the target is in the middle of the whole.
LinkItems(target, rest) ==
  (IF rest = <<>> THEN PathItems(target) ELSE PathNames(target)) \o rest

\* What follows a name makes the lookup check at once that the name is a
\* directory: "..", or the end of a path that ends in "/" or "/.".
RequiresDir(rest) == rest # <<>> /\ Head(rest) \in {Dot, DotDot}

\* One step of path lookup: the next item of rem is looked up in cur, whose
\* path is len characters long (0 for the root);
\* links counts the symbolic links followed so far. err is "RUN" until the
\* lookup ends, then "OK" or the errno. inval says that a readlink has
\* failed with EINVAL, as it does on every name that is not a symbolic
\* link. lim is 0 for the kernel's lookup.
\* For realpath(3) it is the size of the buffer the path is built in, and
\* the calls made on the path built so far fail when it does not fit:
\* readlink on the path with the name appended, and, where the name must
\* be a directory, the access check on that path with a "/" appended.
\* The length of the whole path is checked first, then that cur is a
\* directory, and only then the length of the name.
WalkStep(f, s) ==
  IF s.err # "RUN" THEN s
  ELSE IF s.rem = <<>> THEN [s EXCEPT !.err = "OK"]
  ELSE
    LET c == Head(s.rem)
        rest == Tail(s.rem)
        nxt == Append(s.cur, c)
        len == s.len + 1 + Len(c)
        TooLong(n) == s.lim > 0 /\ n >= s.lim
    IN  CASE c = Dot -> [s EXCEPT !.rem = rest]
          [] c = DotDot ->
            [s EXCEPT !.cur = Up(s.cur, 1),
                      !.len = IF s.cur = <<>> THEN 0
                              ELSE s.len - 1 - Len(s.cur[Len(s.cur)]),
                      !.rem = rest]
          [] OTHER ->
            IF TooLong(len) THEN [s EXCEPT !.err = "ENAMETOOLONG"]
            ELSE IF s.cur # <<>> /\ f[s.cur].type = "file"
              THEN [s EXCEPT !.err = "ENOTDIR"]
            ELSE IF Len(c) > NAME_MAX THEN [s EXCEPT !.err = "ENAMETOOLONG"]
            ELSE IF nxt \notin DOMAIN f THEN
              IF RequiresDir(rest) /\ TooLong(len + 1)
                THEN [s EXCEPT !.err = "ENAMETOOLONG"]
              ELSE [s EXCEPT !.err = "ENOENT"]
            ELSE IF f[nxt].type = "link" THEN
              IF s.links + 1 > MAXSYMLINKS THEN [s EXCEPT !.err = "ELOOP"]
              ELSE IF f[nxt].target = <<>> THEN [s EXCEPT !.err = "ENOENT"]
              ELSE [s EXCEPT
                      !.cur = IF f[nxt].target[1] = Slash THEN <<>> ELSE s.cur,
                      !.len = IF f[nxt].target[1] = Slash THEN 0 ELSE s.len,
                      !.rem = LinkItems(f[nxt].target, rest),
                      !.links = s.links + 1]
            ELSE IF RequiresDir(rest) /\ TooLong(len + 1)
              THEN [s EXCEPT !.err = "ENAMETOOLONG"]
            ELSE IF RequiresDir(rest) /\ f[nxt].type = "file"
              THEN [s EXCEPT !.err = "ENOTDIR"]
            ELSE [s EXCEPT !.cur = nxt, !.len = len, !.rem = rest,
                           !.inval = TRUE]

RECURSIVE WalkRun(_, _)
WalkRun(f, s) == IF s.err # "RUN" THEN s ELSE WalkRun(f, WalkStep(f, s))

\* The lookup of path from the directory wd, run to its end.
Walk(f, wd, path, lim) ==
  LET start == IF path # <<>> /\ path[1] = Slash THEN <<>> ELSE wd
      s == WalkRun(f, [cur |-> start,
                       len |-> Len(JoinAbs(start)),
                       rem |-> PathItems(path),
                       links |-> 0,
                       lim |-> lim,
                       inval |-> FALSE,
                       err |-> "RUN"])
  IN  [err |-> s.err, at |-> s.cur, inval |-> s.inval]

\* realpath(path, resolved_executable): rc is "OK" and str the canonical
\* absolute path, or rc is the errno of the NULL return. The argument may
\* have any length; the path built from it has to fit PATH_MAX.
realpath(f, wd, path) ==
  IF path = <<>> THEN [rc |-> "ENOENT", str |-> <<>>]
  ELSE
    LET w == Walk(f, wd, path, PATH_MAX)
    IN  IF w.err # "OK" THEN [rc |-> w.err, str |-> <<>>]
        ELSE IF Len(CPath(w.at)) >= PATH_MAX
          THEN [rc |-> "ENAMETOOLONG", str |-> <<>>]
        ELSE [rc |-> "OK", str |-> CPath(w.at)]

\* errno after realpath(path, resolved_executable), given its value before:
\* the error of a NULL return. After a path is returned: EINVAL when a
\* name of it was put to readlink and was no symbolic link. Else, for a
\* relative argument, what getcwd left: "-" (0) when the working directory
\* is too long for the system call and was found by reading the
\* directories above it, ERANGE when it did not fit the first buffer. Else
\* the value before.
realpath_errno(f, wd, path, before) ==
  LET rp == realpath(f, wd, path)
  IN  IF rp.rc # "OK" THEN rp.rc
      ELSE IF Walk(f, wd, path, PATH_MAX).inval THEN "EINVAL"
      ELSE IF path[1] # Slash /\ Len(CPath(wd)) >= PATH_MAX THEN "-"
      ELSE IF path[1] # Slash /\ Len(CPath(wd)) >= ScratchSize THEN "ERANGE"
      ELSE before

\* execve opens the file it is to run, or an interpreter: err is "OK" and
\* at the file, or err is the errno.
ExecOpen(f, wd, path) ==
  IF path = <<>> THEN [err |-> "ENOENT", at |-> <<>>]
  ELSE IF Len(path) >= PATH_MAX THEN [err |-> "ENAMETOOLONG", at |-> <<>>]
  ELSE
    LET w == Walk(f, wd, path, 0)
    IN  IF w.err # "OK" THEN [err |-> w.err, at |-> <<>>]
        ELSE IF w.at = <<>> \/ f[w.at].type = "dir"
          THEN [err |-> "EACCES", at |-> <<>>]
        ELSE IF ~f[w.at].exec THEN [err |-> "EACCES", at |-> <<>>]
        ELSE [err |-> "OK", at |-> w.at]

\* The PT_INTERP of a program is opened and its header read.
LoadElfInterp(f, wd, p) ==
  IF p = <<>> \/ Len(p) >= PATH_MAX THEN "ENOEXEC"
  ELSE
    LET i == ExecOpen(f, wd, p)
    IN  IF i.err # "OK" THEN i.err
        ELSE IF f[i.at].format \in {"static", "dynamic"} THEN "OK"
        ELSE IF f[i.at].size < EHDR_SIZE THEN "EIO"
        ELSE "ELIBBAD"

\* The characters that separate the words of a "#!" line.
Blanks == {" ", "\t"}

\* The interpreter of a script whose first line is "#!" and then l: the
\* first word of l, the blanks before it passed over; what follows the
\* word is an argument. When the line does not end within the bytes execve
\* has read, only they are looked at, and the word has to end within
\* them. <<>> when there is no such word.
ScriptInterp(l) ==
  LET whole == Len(l) + 2 < BINPRM_BUF_SIZE
      seen == IF whole THEN l ELSE SubSeq(l, 1, BINPRM_BUF_SIZE - 2)
      words == {i \in 1..Len(seen) : seen[i] \notin Blanks}
      first == Nth(words, 1)
      ends == {i \in first..Len(seen) : seen[i] \in Blanks}
  IN  IF words = {} THEN <<>>
      ELSE IF ends # {} THEN SubSeq(seen, first, Nth(ends, 1) - 1)
      ELSE IF whole THEN SubSeq(seen, first, Len(seen))
      ELSE <<>>

RECURSIVE ExecLoad(_, _, _, _)
\* execve of path as the depth-th interpreter in a row (0: the program
\* itself): "OK", or the errno.
ExecLoad(f, wd, path, depth) ==
  LET o == ExecOpen(f, wd, path)
  IN  IF o.err # "OK" THEN o.err
      ELSE IF depth > MAX_INTERP_DEPTH THEN "ELOOP"
      ELSE
        LET n == f[o.at]
        IN  CASE n.format = "static" -> "OK"
              [] n.format = "dynamic" -> LoadElfInterp(f, wd, n.interp)
              [] n.format = "script" ->
                   IF ScriptInterp(n.interp) = <<>> THEN "ENOEXEC"
                   ELSE ExecLoad(f, wd, ScriptInterp(n.interp), depth + 1)
              [] OTHER -> "ENOEXEC"

\* What execve does with a path: "OK", or the errno it fails with.
ExecvResult(f, wd, path) == ExecLoad(f, wd, path, 0)

\* What standard error can be when main starts: open for reading and
\* writing (a terminal), open for writing only (a pipe with a reader, a
\* file), a device with no room left, closed or open for reading only, a
\* pipe without a reader with SIGPIPE ignored, and the same with SIGPIPE
\* at its default.
StderrKinds == {"rdwr", "wronly", "full", "closed", "epipe", "sigpipe"}

\* Those a write to succeeds on.
WritableKinds == {"rdwr", "wronly"}

\* What a write to standard error ends in: "OK", the errno it fails with,
\* or the signal that ends the process.
WriteResult(kind) ==
  CASE kind \in WritableKinds -> "OK"
    [] kind = "full" -> "ENOSPC"
    [] kind = "closed" -> "EBADF"
    [] kind = "epipe" -> "EPIPE"
    [] kind = "sigpipe" -> "SIGPIPE"

\* errno after perror has written its line, given its value before.
\* perror writes through a second stream it opens for reading and writing
\* on a copy of the descriptor; where standard error is open for writing
\* only that fails with EINVAL and perror writes to stderr itself.
perror_errno(before, kind) == IF kind = "rdwr" THEN before ELSE "EINVAL"

\* fprintf(stderr, line) with errno at before, on a standard error of the
\* given kind: the lines standard error receives, errno afterwards, and
\* whether the process was ended by SIGPIPE in the call.
fprintf(kind, line, before) ==
  LET w == WriteResult(kind)
  IN  [received |-> IF w = "OK" THEN <<line>> ELSE <<>>,
       errno |-> IF w \in {"OK", "SIGPIPE"} THEN before ELSE w,
       killed |-> w = "SIGPIPE"]

\* perror(prefix) with errno at before: the line names that errno.
perror(kind, before) ==
  LET w == WriteResult(kind)
  IN  [received |-> IF w = "OK" THEN <<MsgLaunch(before)>> ELSE <<>>,
       errno |-> IF w = "OK" THEN perror_errno(before, kind)
                 ELSE IF w = "SIGPIPE" THEN before
                 ELSE w,
       killed |-> w = "SIGPIPE"]

(***************************************************************************)
(* resolve_helper_executable, main.c:10-37.                                *)
(***************************************************************************)

\* strrchr(s, '/'): the index of the last '/', 0 for NULL.
strrchr(s) ==
  IF SlashPos(s) = {} THEN 0
  ELSE CHOOSE i \in SlashPos(s) : \A j \in SlashPos(s) : j <= i

\* Terminate with the cut one character late: the '/' stays.
TerminateKeepsSlash(s, i) == SubSeq(s, 1, i)

\* *last_slash = '\0': the string now ends before index i.
Terminate(s, i) == SubSeq(s, 1, i - 1)

\* A buffer nothing was written to.
Uninit == [set |-> FALSE, str |-> <<>>]

\* snprintf(out, out_size, "%s/%s", a, b): the length the whole output has,
\* and the buffer, which then holds at most out_size - 1 characters of it
\* and the terminator. With out_size 0 nothing is written and the buffer
\* is as it was.
snprintf(out, out_size, a, b) ==
  LET full == a \o <<Slash>> \o b
      n == IF Len(full) < out_size THEN Len(full) ELSE out_size - 1
  IN  [written |-> Len(full),
       out |-> IF out_size = 0 THEN out
               ELSE [set |-> TRUE, str |-> SubSeq(full, 1, n)]]

\* The check of main.c:32 with > for >=.
TruncatedOffByOne(written, out_size) == written < 0 \/ written > out_size

\* main.c:32: the result did not fit.
Truncated(written, out_size) == written < 0 \/ written >= out_size

\* Canonicalize without the NULL check: argv[0] is used as it came.
CanonicalizeUnchecked(f, wd, argv0) ==
  LET rp == realpath(f, wd, argv0)
  IN  [ok |-> TRUE, str |-> IF rp.rc = "OK" THEN rp.str ELSE argv0]

\* main.c:15-17: the canonical own path, unless realpath returned NULL.
Canonicalize(f, wd, argv0) ==
  LET rp == realpath(f, wd, argv0)
  IN  [ok |-> rp.rc = "OK", str |-> rp.str]

\* StripLast without the NULL check: a string with no '/' is kept whole.
StripLastUnchecked(s) ==
  LET last_slash == strrchr(s)
  IN  [ok |-> TRUE,
       str |-> IF last_slash # 0 THEN SubSeq(s, 1, last_slash - 1) ELSE s]

\* main.c:19-23 and again 25-29: cut the string at its last '/', unless it
\* has none.
StripLast(s) ==
  LET last_slash == strrchr(s)
  IN  [ok |-> last_slash # 0,
       str |-> IF last_slash # 0 THEN Terminate(s, last_slash) ELSE s]

\* main.c:31-36: the return value and the contents of out.
Format(out, root, out_size) ==
  LET p == snprintf(out, out_size, root, kHelperRelativeExecutable)
  IN  [rc |-> IF Truncated(p.written, out_size) THEN -1 ELSE 0,
       out |-> p.out]

\* resolve_helper_executable with a third component stripped.
resolve_strips_three(f, wd, argv0, out, out_size) ==
  LET own == realpath(f, wd, argv0)
      i1 == strrchr(own.str)
      dir == SubSeq(own.str, 1, i1 - 1)
      i2 == strrchr(dir)
      mid == SubSeq(dir, 1, i2 - 1)
      i3 == strrchr(mid)
      root == SubSeq(mid, 1, i3 - 1)
      p == snprintf(out, out_size, root, kHelperRelativeExecutable)
  IN  IF own.rc # "OK" \/ i1 = 0 \/ i2 = 0 \/ i3 = 0
      THEN [rc |-> -1, out |-> out]
      ELSE [rc |-> IF p.written < 0 \/ p.written >= out_size THEN -1 ELSE 0,
            out |-> p.out]

\* The return value and the contents of out, given what out held before:
\* out is written by snprintf only.
resolve_helper_executable(f, wd, argv0, out, out_size) ==
  LET own == Canonicalize(f, wd, argv0)
      dir == StripLast(own.str)
      root == StripLast(dir.str)
  IN  IF ~own.ok THEN [rc |-> -1, out |-> out]
      ELSE IF ~dir.ok THEN [rc |-> -1, out |-> out]
      ELSE IF ~root.ok THEN [rc |-> -1, out |-> out]
      ELSE Format(out, root.str, out_size)

(***************************************************************************)
(* The environments the launcher is started in.                            *)
(***************************************************************************)

Nm_launcher == <<"l", "a", "u", "n", "c", "h", "e", "r">>

Nm_a == <<"a">>

Nm_opt == <<"o", "p", "t">>

Nm_app == <<"a", "p", "p">>

Nm_bin == <<"b", "i", "n">>

Nm_l1 == <<"l", "1">>

Nm_l2 == <<"l", "2">>

Nm_loop == <<"l", "o", "o", "p">>

Nm_d == <<"d">>

Nm_missing == <<"m", "i", "s", "s", "i", "n", "g">>

\* What a helper that is no program holds.
Nm_text == <<"p", "l", "a", "i", "n", " ", "t", "e", "x", "t", "\n">>

\* A directory next to the launcher, with a name of 250 characters.
Nm_deep == [i \in 1..(NAME_MAX - 5) |-> "y"]

\* "/./././.": PATH_MAX characters that name the root.
DotSlashes == [i \in 1..PATH_MAX |-> IF i % 2 = 1 THEN Slash ELSE "."]

Xs(n) == [i \in 1..n |-> "x"]

\* A chain of directories whose absolute path is exactly r characters long
\* (r is not 0 or 1 modulo NAME_MAX + 1).
LongDir(r) ==
  LET k == r \div (NAME_MAX + 1)
      rest == r % (NAME_MAX + 1)
  IN  [i \in 1..k |-> Xs(NAME_MAX)] \o (IF rest > 1 THEN <<Xs(rest - 1)>> ELSE <<>>)

\* Length of the longest installation root whose helper path still fits.
LongestRoot == PATH_MAX - Len(kHelperRelativeExecutable) - 2

\* The directories the launcher may be installed in: the root, one and
\* three levels down.
LauncherDirs == { <<>>, <<Nm_a>>, <<Nm_opt, Nm_app, Nm_bin>> }

\* Directories at the limits of the path buffers: the longest installation
\* root whose helper path fits, the shortest whose helper path does not,
\* and one whose launcher has no canonical path shorter than PATH_MAX.
LongLauncherDirs ==
  { Append(LongDir(LongestRoot), Nm_bin),
    Append(LongDir(LongestRoot + 1), Nm_bin),
    Append(LongDir(PATH_MAX - 10), Nm_bin) }

\* Where the helper is installed: nowhere, one or two levels above the
\* launcher's directory, or one level above without execute permission,
\* with contents the kernel cannot run, or as a script whose interpreter
\* does not exist.
HelperModes == {"none", "up1", "up2", "noexec", "noformat", "nointerp"}

HelperRoot(dir, helper) == IF helper = "up2" THEN Up(dir, 2) ELSE Up(dir, 1)

HelperPath(dir, helper) ==
  HelperRoot(dir, helper) \o Components(kHelperRelativeExecutable)

\* The symbolic links at the top of every filesystem: l1 to the launcher
\* by its absolute path, l2 to l1 by a relative path, loop to itself, and
\* d to the launcher's directory. A link exists only if its target is
\* shorter than PATH_MAX.
LinkTarget(p, dir) ==
  CASE p = <<Nm_l1>> -> CPath(Append(dir, Nm_launcher))
    [] p = <<Nm_l2>> -> Nm_l1
    [] p = <<Nm_loop>> -> Nm_loop
    [] p = <<Nm_d>> -> CPath(dir)

MkFS(dir, launcherExists, helper) ==
  LET hpath == HelperPath(dir, helper)
      lpath == Append(dir, Nm_launcher)
      hdirs == IF helper = "none" THEN {}
               ELSE {SubSeq(hpath, 1, i) : i \in 1..(Len(hpath) - 1)}
      dirs == {SubSeq(dir, 1, i) : i \in 0..Len(dir)} \cup hdirs
                \cup {Append(dir, Nm_deep)}
      files == (IF launcherExists THEN {lpath} ELSE {})
               \cup (IF helper = "none" THEN {} ELSE {hpath})
      links == {p \in {<<Nm_l1>>, <<Nm_l2>>, <<Nm_loop>>, <<Nm_d>>} :
                  Len(LinkTarget(p, dir)) < PATH_MAX}
  IN  [p \in dirs \cup files \cup links |->
         IF p \in links THEN Link(LinkTarget(p, dir))
         ELSE IF p \in files
           THEN File(p = lpath \/ helper # "noexec",
                     IF p # lpath /\ helper = "noformat" THEN Data(Len(Nm_text))
                     ELSE IF p # lpath /\ helper = "nointerp"
                       THEN Script(<<Slash>> \o Nm_missing)
                     ELSE Static)
         ELSE Dir]

\* The ways the launcher may be named in argv[0].
Argv0s(dir) ==
  { CPath(Append(dir, Nm_launcher)),
    <<Slash>> \o Nm_l1,
    <<Slash>> \o Nm_l2,
    <<Slash>> \o Nm_loop,
    <<Slash>> \o Nm_d \o <<Slash>> \o Nm_launcher,
    Nm_launcher,
    <<".", Slash>> \o Nm_launcher,
    <<Slash, Slash>> \o Nm_d \o <<Slash, ".", Slash, ".", ".", Slash>> \o Nm_l1,
    <<Slash>> \o Nm_missing,
    <<>> }

\* The user-supplied arguments.
ArgValues == { <<>>, <<"-", "v">> }

ArgLists == UNION {[1..n -> ArgValues] : n \in 0..MaxArgs}

(***************************************************************************)
(* State.                                                                  *)
(***************************************************************************)

VARIABLES
  fs,                 \* the filesystem
  cwd,                \* the working directory, a canonical directory
  argv,               \* main's argv[0..argc-1]
  pc,                 \* the statement of main that runs next
  helper_executable,  \* main.c:40
  child_argv,         \* main.c:41: NULL, or the array of pointers
  heap,               \* the block child_argv points to
  free_calls,         \* calls of free
  realpath_calls,     \* calls of realpath
  execv_calls,        \* what each call of execv was given
  errno,              \* errno: "-" at the start, then the last error set
  stderr_kind,        \* what standard error is, one of StderrKinds
  stderr,             \* lines standard error has received
  exit_status,        \* the statuses the launcher exited with: none, or one
                      \* (none when a signal ended it)
  image               \* the program the process runs

vars ==
  <<fs, cwd, argv, pc, helper_executable, child_argv, heap, free_calls,
    realpath_calls, execv_calls, errno, stderr_kind, stderr, exit_status,
    image>>

argc == Len(argv)

\* Pointers: NULL, the address of helper_executable, or argv[idx].
NULL == [kind |-> "null", idx |-> 0]

PtrHelper == [kind |-> "helper", idx |-> 0]

PtrArgv(i) == [kind |-> "argv", idx |-> i]

\* The string a pointer of child_argv points to.
Deref(p) == IF p.kind = "helper" THEN helper_executable.str ELSE argv[p.idx + 1]

\* The environments a run starts in. For a short directory: every
\* combination of the short names of the launcher.
LayoutsOf(d) ==
  { [dir |-> d, exists |-> e, helper |-> h, a0 |-> a, wd |-> w] :
      e \in BOOLEAN, h \in HelperModes, a \in Argv0s(d), w \in {d, <<>>} }

\* For every directory, the long ones included: an existing launcher,
\* named by its path, through the links l2 and d, relative to its
\* directory, by a name longer than PATH_MAX, or through the directory next
\* to it and back.
LongLayoutsOf(d) ==
  { [dir |-> d, exists |-> TRUE, helper |-> h, a0 |-> a, wd |-> d] :
      h \in {"none", "up1"},
      a \in { CPath(Append(d, Nm_launcher)),
              <<Slash>> \o Nm_l2,
              <<Slash>> \o Nm_d \o <<Slash>> \o Nm_launcher,
              Nm_launcher,
              DotSlashes \o CPath(Append(d, Nm_launcher)),
              <<Slash>> \o Nm_d \o <<Slash>> \o Nm_deep
                \o <<Slash, ".", ".", Slash>> \o Nm_launcher } }

Layouts == UNION {LayoutsOf(d) : d \in LauncherDirs}

LongLayouts ==
  UNION {LongLayoutsOf(d) : d \in LauncherDirs \cup LongLauncherDirs}

\* An environment and the user-supplied arguments; with the long names, no
\* argument or one.
Starts ==
  {<<l, args>> : l \in Layouts, args \in ArgLists}
    \cup {<<l, args>> : l \in LongLayouts,
                        args \in {<<>>} \cup {<<v>> : v \in ArgValues}}

\* The launcher is started with a standard error that can be written to.
Init ==
  \E st \in Starts, k \in WritableKinds : LET l == st[1]  args == st[2] IN
      /\ stderr_kind = k
      /\ fs = MkFS(l.dir, l.exists, l.helper)
      /\ cwd = l.wd
      /\ argv = <<l.a0>> \o args
      /\ pc = "resolve"
      /\ helper_executable = Uninit
      /\ child_argv = <<>>
      /\ heap = "unallocated"
      /\ free_calls = 0
      /\ realpath_calls = 0
      /\ execv_calls = <<>>
      /\ errno = "-"
      /\ stderr = <<>>
      /\ exit_status = <<>>
      /\ image = "launcher"

(***************************************************************************)
(* main, main.c:39-65, one action per call it makes.                       *)
(***************************************************************************)

\* main.c:44-47
Resolve ==
  /\ pc = "resolve"
  /\ LET r == resolve_helper_executable(fs, cwd, argv[1], helper_executable,
                                        PATH_MAX)
         e == realpath_errno(fs, cwd, argv[1], errno)
         w == fprintf(stderr_kind, MsgResolve, e)
     IN  /\ helper_executable' = r.out
         /\ realpath_calls' = realpath_calls + 1
         /\ IF r.rc # 0
            THEN /\ stderr' = stderr \o w.received
                 /\ errno' = w.errno
                 /\ IF w.killed
                    THEN pc' = "killed" /\ UNCHANGED exit_status
                    ELSE pc' = "exited" /\ exit_status' = Append(exit_status, 1)
            ELSE /\ pc' = "calloc"
                 /\ errno' = e
                 /\ UNCHANGED <<stderr, exit_status>>
  /\ UNCHANGED <<fs, cwd, argv, child_argv, heap, free_calls, execv_calls,
                 stderr_kind, image>>

\* Calloc whose failure branch returns 1 without a diagnostic.
CallocSilent ==
  /\ pc = "calloc"
  /\ \E ok \in BOOLEAN :
       IF ok
       THEN /\ child_argv' = [i \in 1..(argc + 1) |-> NULL]
            /\ heap' = "live"
            /\ pc' = "fill"
            /\ UNCHANGED <<stderr, exit_status, errno>>
       ELSE /\ errno' = "ENOMEM"
            /\ exit_status' = Append(exit_status, 1)
            /\ pc' = "exited"
            /\ UNCHANGED <<child_argv, heap, stderr>>
  /\ UNCHANGED <<fs, cwd, argv, helper_executable, free_calls, realpath_calls,
                 execv_calls, stderr_kind, image>>

\* main.c:49-53: calloc returns a zeroed block of argc + 1 pointers, or
\* NULL with errno ENOMEM.
Calloc ==
  /\ pc = "calloc"
  /\ \E ok \in BOOLEAN :
       IF ok
       THEN /\ child_argv' = [i \in 1..(argc + 1) |-> NULL]
            /\ heap' = "live"
            /\ pc' = "fill"
            /\ UNCHANGED <<stderr, exit_status, errno>>
       ELSE LET w == fprintf(stderr_kind, MsgAlloc, "ENOMEM")
            IN  /\ stderr' = stderr \o w.received
                /\ errno' = w.errno
                /\ IF w.killed
                   THEN pc' = "killed" /\ UNCHANGED exit_status
                   ELSE pc' = "exited" /\ exit_status' = Append(exit_status, 1)
                /\ UNCHANGED <<child_argv, heap>>
  /\ UNCHANGED <<fs, cwd, argv, helper_executable, free_calls, realpath_calls,
                 execv_calls, stderr_kind, image>>

\* FillArgv with the copy loop started at i = 0: slot 0 gets argv[0] back.
FillArgvFromZero(arr, n) ==
  [k \in DOMAIN arr |->
     IF k <= n THEN PtrArgv(k - 1)
     ELSE IF k = n + 1 THEN NULL
     ELSE arr[k]]

\* main.c:55-59: the array after the three assignments.
FillArgv(arr, n) ==
  [k \in DOMAIN arr |->
     IF k = 1 THEN PtrHelper
     ELSE IF k <= n THEN PtrArgv(k - 1)
     ELSE IF k = n + 1 THEN NULL
     ELSE arr[k]]

Fill ==
  /\ pc = "fill"
  /\ child_argv' = FillArgv(child_argv, argc)
  /\ pc' = "execv"
  /\ UNCHANGED <<fs, cwd, argv, helper_executable, heap, free_calls,
                 realpath_calls, execv_calls, errno, stderr_kind, stderr,
                 exit_status, image>>

\* The strings of a pointer array up to its first NULL.
ArgStrings(arr) ==
  LET nulls == {k \in DOMAIN arr : arr[k] = NULL}
      n == IF nulls = {} THEN Len(arr) ELSE Nth(nulls, 1) - 1
  IN  [k \in 1..n |-> Deref(arr[k])]

\* main.c:61
Execv ==
  /\ pc = "execv"
  /\ execv_calls' = Append(execv_calls,
       [path |-> helper_executable.str, array |-> child_argv,
        args |-> ArgStrings(child_argv), heap |-> heap])
  /\ LET e == ExecvResult(fs, cwd, helper_executable.str)
     IN  IF e = "OK"
         THEN /\ image' = "helper"
              /\ pc' = "replaced"
              /\ UNCHANGED errno
         ELSE /\ errno' = e
              /\ pc' = "perror"
              /\ UNCHANGED image
  /\ UNCHANGED <<fs, cwd, argv, helper_executable, child_argv, heap, free_calls,
                 realpath_calls, stderr_kind, stderr, exit_status>>

\* Perror that writes the resolution diagnostic instead of its own.
PerrorResolveMessage ==
  /\ pc = "perror"
  /\ LET w == fprintf(stderr_kind, MsgResolve, errno)
     IN  /\ stderr' = stderr \o w.received
         /\ errno' = w.errno
         /\ pc' = IF w.killed THEN "killed" ELSE "free"
  /\ UNCHANGED <<fs, cwd, argv, helper_executable, child_argv, heap, free_calls,
                 realpath_calls, execv_calls, stderr_kind, exit_status, image>>

\* Perror followed by another attempt to launch.
PerrorRetries ==
  /\ pc = "perror"
  /\ LET w == perror(stderr_kind, errno)
     IN  /\ stderr' = stderr \o w.received
         /\ errno' = w.errno
         /\ pc' = IF w.killed THEN "killed"
                  ELSE IF Len(execv_calls) < 2 THEN "execv"
                  ELSE "free"
  /\ UNCHANGED <<fs, cwd, argv, helper_executable, child_argv, heap, free_calls,
                 realpath_calls, execv_calls, stderr_kind, exit_status, image>>

\* main.c:62. The line names the errno execv left. A process SIGPIPE ends
\* in the call goes no further: nothing is freed and no status returned.
Perror ==
  /\ pc = "perror"
  /\ LET w == perror(stderr_kind, errno)
     IN  /\ stderr' = stderr \o w.received
         /\ errno' = w.errno
         /\ pc' = IF w.killed THEN "killed" ELSE "free"
  /\ UNCHANGED <<fs, cwd, argv, helper_executable, child_argv, heap, free_calls,
                 realpath_calls, execv_calls, stderr_kind, exit_status, image>>

\* main.c:63
Free ==
  /\ pc = "free"
  /\ heap' = "freed"
  /\ free_calls' = free_calls + 1
  /\ pc' = "return"
  /\ UNCHANGED <<fs, cwd, argv, helper_executable, child_argv, realpath_calls,
                 execv_calls, errno, stderr_kind, stderr, exit_status, image>>

\* Return that releases the argument buffer a second time.
ReturnFreesAgain ==
  /\ pc = "return"
  /\ free_calls' = free_calls + 1
  /\ exit_status' = Append(exit_status, 1)
  /\ pc' = "exited"
  /\ UNCHANGED <<fs, cwd, argv, helper_executable, child_argv, heap,
                 realpath_calls, execv_calls, errno, stderr_kind, stderr, image>>

\* main.c:64
Return ==
  /\ pc = "return"
  /\ exit_status' = Append(exit_status, 1)
  /\ pc' = "exited"
  /\ UNCHANGED <<fs, cwd, argv, helper_executable, child_argv, heap, free_calls,
                 realpath_calls, execv_calls, errno, stderr_kind, stderr, image>>

Next == Resolve \/ Calloc \/ Fill \/ Execv \/ Perror \/ Free \/ Return

Spec == Init /\ [][Next]_vars

(***************************************************************************)
(* What the properties below compare the program with: the launcher's      *)
(* canonical location and the helper path it implies, computed on lists    *)
(* of names rather than on characters.                                     *)
(***************************************************************************)

\* The canonical own path (the filesystem does not change during a run).
OwnPath == realpath(fs, cwd, argv[1])

\* Its names below "/": one per '/' of the canonical path.
OwnNames ==
  IF OwnPath.str = <<Slash>> THEN <<>> ELSE Tail(Components(OwnPath.str))

SuffixNames == Components(kHelperRelativeExecutable)

\* The helper path for an installation root given by its names.
HelperUnder(rootNames) == JoinAbs(rootNames \o SuffixNames)

\* The helper is installed, as a file, under that root.
HelperInstalledUnder(rootNames) ==
  /\ (rootNames \o SuffixNames) \in DOMAIN fs
  /\ fs[rootNames \o SuffixNames].type = "file"

\* The own path with its last two names removed, then the suffix.
ExpectedHelper == HelperUnder(Up(OwnNames, 2))

\* All three stages of resolution should succeed.
ResolutionExpected ==
  /\ OwnPath.rc = "OK"
  /\ Len(OwnNames) >= 2
  /\ Len(ExpectedHelper) < PATH_MAX

\* main has got a 0 or a non-zero return from resolve_helper_executable.
ResolveReturned == pc # "resolve"

ResolveFailed == pc = "exited" /\ execv_calls = <<>> /\ heap = "unallocated"
                 /\ stderr = <<MsgResolve>>

ResolveSucceeded == ResolveReturned /\ ~ResolveFailed /\ stderr # <<MsgResolve>>

(***************************************************************************)
(* C1                                                                      *)
(***************************************************************************)

\* C1: the array handed to execv has exactly argc entries before its NULL
\* terminator; entry 0 is the resolved helper path, which is also the
\* program executed; entries 1..argc-1 are argv[1..argc-1], same values,
\* same order; entry argc is the terminator.
C1_ForwardedArguments ==
  \A k \in DOMAIN execv_calls :
    LET c == execv_calls[k]
    IN  /\ c.path = helper_executable.str
        /\ helper_executable.set
        /\ Len(c.array) = argc + 1
        /\ c.array[argc + 1] = NULL
        /\ \A i \in 1..argc : c.array[i] # NULL
        /\ Len(c.args) = argc
        /\ c.array[1] = PtrHelper
        /\ c.args[1] = c.path
        /\ \A i \in 2..argc : c.array[i] = PtrArgv(i - 1) /\ c.args[i] = argv[i]

\* execv was called with two different user arguments, one of them the
\* empty string.
C1_Witness ==
  /\ execv_calls # <<>>
  /\ argc = 3
  /\ argv[2] = <<>>
  /\ argv[3] # <<>>

(***************************************************************************)
(* C2                                                                      *)
(***************************************************************************)

\* C2 as claimed: with the launcher resolved to root/A/B/launcher and the
\* helper installed at root/Helpers/name, resolution returns
\* root/Helpers/name.
C2_AsClaimed ==
  (/\ ResolveReturned
   /\ OwnPath.rc = "OK"
   /\ Len(OwnNames) >= 3
   /\ HelperInstalledUnder(Up(OwnNames, 3))
   /\ Len(HelperUnder(Up(OwnNames, 3))) < PATH_MAX)
  => (/\ ResolveSucceeded
      /\ helper_executable = [set |-> TRUE, str |-> HelperUnder(Up(OwnNames, 3))])

\* C2 as amended: with the launcher resolved to root/B/launcher (one
\* directory between the root and the launcher) and the helper installed
\* at root/Helpers/name, a path shorter than PATH_MAX, resolution succeeds
\* and returns exactly root/Helpers/name, the path of the installed helper,
\* whatever symbolic links argv[0] went through.
C2_HelperOfTwoLevelLayout ==
  (/\ ResolveReturned
   /\ OwnPath.rc = "OK"
   /\ Len(OwnNames) >= 2
   /\ HelperInstalledUnder(Up(OwnNames, 2))
   /\ Len(HelperUnder(Up(OwnNames, 2))) < PATH_MAX)
  => (/\ ResolveSucceeded
      /\ helper_executable = [set |-> TRUE, str |-> HelperUnder(Up(OwnNames, 2))]
      /\ Walk(fs, <<>>, helper_executable.str, 0).err = "OK"
      /\ Walk(fs, <<>>, helper_executable.str, 0).at =
           Up(OwnNames, 2) \o SuffixNames)

\* The launcher was started through l2, a link to the link l1, in the layout
\* /opt/app/bin/launcher, and resolution returned the installed helper.
C2_Witness ==
  /\ ResolveSucceeded
  /\ argv[1] = <<Slash>> \o Nm_l2
  /\ OwnNames = <<Nm_opt, Nm_app, Nm_bin, Nm_launcher>>
  /\ HelperInstalledUnder(<<Nm_opt, Nm_app>>)
  /\ helper_executable.str = HelperUnder(<<Nm_opt, Nm_app>>)

(***************************************************************************)
(* C3                                                                      *)
(***************************************************************************)

\* C3: whenever resolution succeeds, its output is the canonical own path
\* without its last two components, a '/', and the compiled-in suffix: a
\* value fixed by argv[0], the working directory and the filesystem, not
\* by argv[1..].
C3_TwoComponentsRemoved ==
  ResolveSucceeded =>
    /\ OwnPath.rc = "OK"
    /\ Len(OwnNames) >= 2
    /\ helper_executable.set
    /\ helper_executable.str =
         JoinAbs(SubSeq(OwnNames, 1, Len(OwnNames) - 2))
           \o <<Slash>> \o kHelperRelativeExecutable

\* /opt/app/bin/launcher, started with two user arguments, gave
\* /opt/app/Helpers/...
C3_Witness ==
  /\ ResolveSucceeded
  /\ argc = 3
  /\ OwnPath.str = JoinAbs(<<Nm_opt, Nm_app, Nm_bin, Nm_launcher>>)
  /\ helper_executable.str =
       JoinAbs(<<Nm_opt, Nm_app>>) \o <<Slash>> \o kHelperRelativeExecutable

(***************************************************************************)
(* C4                                                                      *)
(***************************************************************************)

\* C4: if realpath fails on argv[0], main exits with status 1 after the
\* resolution diagnostic; execv is never called and no argument buffer is
\* allocated.
C4_NoLaunchWithoutOwnPath ==
  (ResolveReturned /\ OwnPath.rc # "OK") =>
    /\ pc = "exited"
    /\ exit_status = <<1>>
    /\ stderr = <<MsgResolve>>
    /\ execv_calls = <<>>
    /\ image = "launcher"
    /\ heap = "unallocated"
    /\ child_argv = <<>>
    /\ free_calls = 0

\* The launcher was named by its absolute path, the file is gone, and main
\* has exited.
C4_Witness ==
  /\ pc = "exited"
  /\ OwnPath.rc = "ENOENT"
  /\ Len(argv[1]) > 1
  /\ argv[1][1] = Slash
  /\ argv[1] # <<Slash>> \o Nm_missing
  /\ Cardinality(SlashPos(argv[1])) >= 3

(***************************************************************************)
(* C5                                                                      *)
(***************************************************************************)

\* The directory components of the canonical own path: its names but the
\* last, the file name.
DirComponents == Len(OwnNames) - 1

\* C5 as claimed: with fewer than two directory components above the file
\* name, resolution fails: main exits with status 1, no helper path is
\* written and nothing is launched.
C5_AsClaimed ==
  (ResolveReturned /\ OwnPath.rc = "OK" /\ DirComponents < 2) =>
    /\ pc = "exited"
    /\ exit_status = <<1>>
    /\ stderr = <<MsgResolve>>
    /\ ~helper_executable.set
    /\ execv_calls = <<>>
    /\ image = "launcher"

\* C5 as amended: with no directory component above the file name (the
\* launcher resolves to /launcher, in the filesystem root), resolution
\* fails: main exits with status 1, no helper path is written and nothing
\* is launched. With one directory component (/a/launcher) the root is
\* the filesystem root and resolution returns /Helpers/...
C5_LayoutTooShallow ==
  /\ (ResolveReturned /\ OwnPath.rc = "OK" /\ DirComponents < 1) =>
       /\ pc = "exited"
       /\ exit_status = <<1>>
       /\ stderr = <<MsgResolve>>
       /\ ~helper_executable.set
       /\ execv_calls = <<>>
       /\ image = "launcher"
  /\ (ResolveReturned /\ OwnPath.rc = "OK" /\ DirComponents = 1) =>
       /\ ResolveSucceeded
       /\ helper_executable.str = <<Slash>> \o kHelperRelativeExecutable

\* The launcher resolved to /launcher and main has exited.
C5_Witness ==
  /\ pc = "exited"
  /\ OwnPath.rc = "OK"
  /\ OwnPath.str = <<Slash>> \o Nm_launcher

(***************************************************************************)
(* C6                                                                      *)
(***************************************************************************)

LaunchText == MsgLaunch("-").text

\* C6: the launcher only ever exits with status 1, and then exactly one
\* line is on standard error, the one of the stage that failed:
\* resolution, allocation of the argument buffer, or execv. Nothing is
\* written and no status is produced once the helper runs.
C6_OneDiagnosticAndStatusOne ==
  /\ exit_status \in {<<>>, <<1>>}
  /\ Len(stderr) <= 1
  /\ (exit_status = <<1>>) <=> (pc = "exited")
  /\ image = "helper" => stderr = <<>> /\ exit_status = <<>>
  /\ pc = "exited" =>
       /\ Len(stderr) = 1
       /\ (~ResolutionExpected) <=> (stderr[1] = MsgResolve)
       /\ (ResolutionExpected /\ heap = "unallocated") <=> (stderr[1] = MsgAlloc)
       /\ (execv_calls # <<>>) <=> (stderr[1].text = LaunchText)
       /\ execv_calls # <<>> =>
            /\ stderr[1] = MsgLaunch(ExecvResult(fs, cwd, ExpectedHelper))
            /\ stderr[1].errno \notin {"OK", "-"}
  /\ MsgResolve.text # MsgAlloc.text
  /\ MsgResolve.text # LaunchText
  /\ MsgAlloc.text # LaunchText

\* calloc failed and main has exited.
C6_Witness ==
  /\ pc = "exited"
  /\ ResolutionExpected
  /\ heap = "unallocated"
  /\ stderr = <<MsgAlloc>>

(***************************************************************************)
(* C7                                                                      *)
(***************************************************************************)

HelperAbsent ==
  Walk(fs, <<>>, ExpectedHelper, 0).err = "ENOENT"

\* C7: with no helper at the computed path, resolution still succeeds;
\* once the argument buffer is there execv is called and fails, and main
\* exits with status 1 after a diagnostic that is not the resolution
\* diagnostic.
C7_MissingHelperFoundByExecv ==
  (ResolutionExpected /\ HelperAbsent) =>
    /\ ResolveReturned =>
         /\ ResolveSucceeded
         /\ helper_executable = [set |-> TRUE, str |-> ExpectedHelper]
    /\ pc # "replaced"
    /\ (heap # "unallocated" /\ pc \in {"perror", "free", "return", "exited"}) =>
         /\ Len(execv_calls) = 1
         /\ execv_calls[1].path = ExpectedHelper
         /\ pc = "perror" => errno = "ENOENT"
         /\ pc # "perror" => stderr = <<MsgLaunch("ENOENT")>>
    /\ (heap # "unallocated" /\ pc = "exited") =>
         /\ exit_status = <<1>>
         /\ stderr = <<MsgLaunch("ENOENT")>>
         /\ stderr[1].text # MsgResolve.text

\* No helper is installed, execv has failed and main has exited.
C7_Witness ==
  /\ pc = "exited"
  /\ ResolutionExpected
  /\ HelperAbsent
  /\ Len(execv_calls) = 1
  /\ stderr = <<MsgLaunch("ENOENT")>>

(***************************************************************************)
(* C8                                                                      *)
(***************************************************************************)

\* Length of the installation root as the program has it (0 for "/").
RootLen == Len(JoinAbs(Up(OwnNames, 2)))

\* C8: once the own path is canonical and has its two components, with r
\* the length of the root, s of the suffix and B the buffer size,
\* resolution succeeds exactly when r + 1 + s < B, and then the buffer
\* holds all r + 1 + s characters; otherwise main exits without a launch.
C8_FitsOrFails ==
  (ResolveReturned /\ OwnPath.rc = "OK" /\ Len(OwnNames) >= 2) =>
    /\ ResolveSucceeded <=> (RootLen + 1 + Len(kHelperRelativeExecutable) < PATH_MAX)
    /\ ResolveSucceeded =>
         /\ Len(helper_executable.str) = RootLen + 1 + Len(kHelperRelativeExecutable)
         /\ helper_executable.str = ExpectedHelper
    /\ ~ResolveSucceeded =>
         /\ pc = "exited"
         /\ exit_status = <<1>>
         /\ execv_calls = <<>>
         /\ image = "launcher"
         /\ heap = "unallocated"

\* The joined path is exactly as long as the buffer, and main has exited.
C8_Witness ==
  /\ pc = "exited"
  /\ OwnPath.rc = "OK"
  /\ Len(OwnNames) >= 2
  /\ RootLen + 1 + Len(kHelperRelativeExecutable) = PATH_MAX
  /\ stderr = <<MsgResolve>>

(***************************************************************************)
(* C9                                                                      *)
(***************************************************************************)

C9_State ==
  /\ free_calls <= 1
  /\ (heap = "freed") <=> (free_calls = 1)
  /\ heap = "freed" =>
       /\ Len(execv_calls) = 1
       /\ image = "launcher"
       /\ stderr = <<MsgLaunch(ExecvResult(fs, cwd, execv_calls[1].path))>>
       /\ pc \in {"return", "exited"}
  /\ (pc = "exited" /\ execv_calls # <<>>) => heap = "freed"
  /\ image = "helper" => heap = "live" /\ free_calls = 0
  /\ (pc = "exited" /\ execv_calls = <<>>) => heap = "unallocated" /\ free_calls = 0
  /\ \A k \in DOMAIN execv_calls : execv_calls[k].heap = "live"

C9_Step ==
  /\ free_calls' # free_calls =>
       /\ heap = "live"
       /\ heap' = "freed"
       /\ execv_calls # <<>>
       /\ stderr # <<>>
       /\ exit_status = <<>>
  /\ heap = "freed" =>
       /\ heap' = "freed"
       /\ child_argv' = child_argv
       /\ execv_calls' = execv_calls
  /\ image = "helper" => heap' = heap /\ child_argv' = child_argv

\* C9: the argument buffer is freed exactly once, and only on the path
\* where execv returned: after the launch diagnostic and before the exit.
\* It is not freed when the helper runs, not freed when it was never
\* allocated, and neither read nor written once freed.
C9_FreedOnlyAfterFailedLaunch == []C9_State /\ [][C9_Step]_vars

\* execv failed, the buffer was freed and main has exited.
C9_Witness ==
  /\ pc = "exited"
  /\ heap = "freed"
  /\ free_calls = 1
  /\ Len(execv_calls) = 1

(***************************************************************************)
(* C10                                                                     *)
(***************************************************************************)

\* The two states of the launcher and its two ends.
Phase ==
  CASE pc = "resolve" -> "Resolving"
    [] pc \in {"calloc", "fill", "execv"} -> "Launching"
    [] pc = "replaced" -> "Replaced"
    [] OTHER -> "Failed"

C10_State ==
  /\ realpath_calls <= 1
  /\ Len(execv_calls) <= 1
  /\ execv_calls # <<>> =>
       /\ realpath_calls = 1
       /\ ResolutionExpected
       /\ helper_executable.set
       /\ heap # "unallocated"
  /\ Phase = "Replaced" => stderr = <<>> /\ exit_status = <<>> /\ free_calls = 0

C10_Step ==
  /\ Phase \notin {"Replaced"}
  /\ pc # "exited"
  /\ Phase = "Resolving" =>
       /\ realpath_calls' = realpath_calls + 1
       /\ Phase' = "Launching" \/ pc' = "exited"
  /\ Phase = "Launching" =>
       /\ Phase' \in {"Launching", "Failed", "Replaced"}
       /\ realpath_calls' = realpath_calls
       /\ (pc = "calloc" /\ Phase' = "Failed") => pc' = "exited"
       /\ Phase' = "Replaced" <=> (image' = "helper")
  /\ Phase = "Failed" =>
       /\ Phase' = "Failed"
       /\ realpath_calls' = realpath_calls
       /\ execv_calls' = execv_calls
       /\ image' = "launcher"
  /\ execv_calls' # execv_calls =>
       /\ pc = "execv"
       /\ heap = "live"
       /\ helper_executable.set

\* C10: every run goes Resolving, then Launching, then an end, without a
\* retry: realpath and execv are each called at most once, execv only
\* after resolution and allocation have succeeded, a failure leads to the
\* failed end and never back, and no step of the launcher follows a
\* successful execv.
C10_NoRetry == []C10_State /\ [][C10_Step]_vars

\* A run that resolved, launched, failed in execv and exited.
C10_Witness ==
  /\ pc = "exited"
  /\ realpath_calls = 1
  /\ Len(execv_calls) = 1
  /\ errno = "EACCES"

====
